---- MODULE Spec2Model ----
(***************************************************************************)
(* EPIC (Economic Positioning of Intake Calculator): the head sweep of     *)
(* src/EPIC.py and the utility functions of src/hydro_utils.py.            *)
(*                                                                         *)
(* The program computes with Python floats.  The model computes the same   *)
(* formulas in fixed point on integers, one unit per quantity:             *)
(*   head, catchment length            metres                              *)
(*   slope                             tan = tn/td and sin = sn/sd         *)
(*   penstock length                   decimetres                          *)
(*   horizontal offset Hz              the fraction HzN/HzD of a metre     *)
(*   area fraction                     1/1000                              *)
(*   catchment area, volume            m^2, m^3                            *)
(*   flows                             decilitres per second (1e-4 m^3/s)  *)
(*   pipe diameter                     decimetres                          *)
(*   pipe cross section                cm^2                                *)
(*   friction coefficient              1/1000                              *)
(*   head loss                         millimetres                         *)
(*   money                             GBP                                 *)
(*   tariffs, market price             1/1000 GBP per kWh                  *)
(*   interest                          1/1000                              *)
(*   reliability, efficiency           1/100                               *)
(*   capacity                          watts                               *)
(*   cost per kW                       GBP per kW                          *)
(*   payback period                    years, rounded up                   *)
(*   annual ROI                        1/100 of a percent, rounded up      *)
(* A quotient is rounded down unless stated; the payback period and the    *)
(* ROI are rounded up so that "> 0" means what it means on the float.      *)
(* The placeholder 999999999.9 is held as 1000000000: for an integer x,    *)
(* x < 999999999.9 exactly when x < 1000000000.                            *)
(* A Python exception is the value Raise; a function that can raise        *)
(* returns either Raise or Val(v).                                         *)
(***************************************************************************)
EXTENDS Integers, Sequences, FiniteSets, TLC

\* ------------------------------------------------------------------------
\* Arithmetic helpers of the fixed-point translation

Raise == [ok |-> FALSE, v |-> 0]
Val(x) == [ok |-> TRUE, v |-> x]

Abs(x) == IF x < 0 THEN -x ELSE x
Max(x, y) == IF x >= y THEN x ELSE y
Min(x, y) == IF x >= y THEN y ELSE x

\* <<floor(a*b/c), (a*b) % c>> for a, b >= 0 and 0 < c < 2^30, by doubling, so
\* that no intermediate product leaves the 32-bit range of the checker.
\* MulDivHalf: the pair for b from the pair <<q, r>> for 2 * (b \div 2).
MulDivHalf(a, b, c, q, r) ==
  IF b % 2 = 0 THEN <<q, r>>
  ELSE <<q + (a \div c) + (r + (a % c)) \div c, (r + (a % c)) % c>>

\* the pair for 2 * n from the pair h for n
MulDivTwice(a, b, c, h) ==
  MulDivHalf(a, b, c, 2 * h[1] + (2 * h[2]) \div c, (2 * h[2]) % c)

RECURSIVE MulDivMod(_, _, _)
MulDivMod(a, b, c) ==
  IF b = 0 THEN <<0, 0>> ELSE MulDivTwice(a, b, c, MulDivMod(a, b \div 2, c))

\* floor of the quotient from the pair m of the absolute values
Signed(a, b, m) ==
  IF (a < 0) = (b < 0) \/ a = 0 \/ b = 0 THEN m[1]
  ELSE IF m[2] = 0 THEN -m[1] ELSE -m[1] - 1

\* floor(a*b/c) for any sign of a and b, c > 0
MulDiv(a, b, c) ==
  Signed(a, b, MulDivMod(Max(Abs(a), Abs(b)), Min(Abs(a), Abs(b)), c))

\* ceil(a*b/c) for c > 0
MulDivUp(a, b, c) == -MulDiv(-a, b, c)

\* a*k/b as Python's float division: ZeroDivisionError when b = 0
Div(a, k, b) ==
  IF b = 0 THEN Raise ELSE Val(MulDiv(IF b > 0 THEN a ELSE -a, k, Abs(b)))

DivUp(a, k, b) ==
  IF b = 0 THEN Raise ELSE Val(MulDivUp(IF b > 0 THEN a ELSE -a, k, Abs(b)))

\* floor(sqrt(n)) for n >= 0, by bisection on [lo, hi)
RECURSIVE SqrtIn(_, _, _)
SqrtIn(n, lo, hi) ==
  IF hi - lo <= 1 THEN lo
  ELSE IF ((lo + hi) \div 2) * ((lo + hi) \div 2) <= n
       THEN SqrtIn(n, (lo + hi) \div 2, hi)
       ELSE SqrtIn(n, lo, (lo + hi) \div 2)

Isqrt(n) == SqrtIn(n, 0, 46341)

\* floor(log10(n)) for n >= 1
RECURSIVE FloorLog10(_)
FloorLog10(n) == IF n < 10 THEN 0 ELSE 1 + FloorLog10(n \div 10)

\* ------------------------------------------------------------------------
\* src/constants.py

GTHigh == 170
GTLow == 135
G == 981
E_DI == 150
E_GRP == 29
DWater == 1000
HEP == 8
PenFrac == 2
PVC_Constraint_MaxHead == 120
PVC_Constraint_MaxDiameter == 5

\* pi as the fraction PiNum/PiDen
PiNum == 355
PiDen == 113

\* src/hydro_utils.py, flow_duration_curve, in 1/10000
flow_duration_curve ==
  <<2049, 2269, 2510, 2786, 3082, 3411, 3781, 4182, 4510, 4864,
    5246, 5657, 6101, 6579, 7100, 7657, 8260, 8991, 9786, 10649>>

\* the placeholder 999999999.9 of the initial optimum records
Sentinel == 1000000000

\* ------------------------------------------------------------------------
\* src/hydro_utils.py

\* get_area: the fraction (in 1/1000) of the catchment above the intake, Hz
\* being n/d.  Each branch is the source's quotient with numerator and
\* denominator multiplied by the same factor, which clears the fractions.

\* the triangle with Hz written for Hz^2: ((cl^2/2) - (Hz/2)) / (cl^2/2)
TriangleUnsquared(c, n, d) == Div(c*c*d - n, 1000, c*c*d)

\* catch_type 1: ((cl^2/2) - (Hz^2/2)) / (cl^2/2), times 2d^2
Triangle(c, n, d) == Div(c*c*d*d - n*n, 1000, c*c*d*d)

\* catch_type 2: ((cl^2/2) - (Hz*cl/2)) / (cl^2/2), times 2d
Rectangle(c, n, d) == Div(c*c*d - n*c, 1000, c*c*d)

\* catch_type 3, Hz <= cl/2: ((3cl^2/8) - (Hz*cl/2)) / (3cl^2/8), times 8d
PentagonNear(c, n, d) == Div(3*c*c*d - 4*n*c, 1000, 3*c*c*d)

\* the far pentagon branch with (cl-Hz)^2 written for (cl-Hz)^2 * 0.5
PentagonFarWholeSquare(c, n, d) ==
  Div(3*c*c*d*d - 2*c*c*d*d - (c*c*d*d - 8*(c*d - n)*(c*d - n)), 1000, 3*c*c*d*d)

\* catch_type 3, else:
\*   ((3cl^2/8) - (cl^2/4) - ((cl^2/8) - (cl-Hz)^2/2)) / (3cl^2/8), times 8d^2
PentagonFar(c, n, d) ==
  Div(3*c*c*d*d - 2*c*c*d*d - (c*c*d*d - 4*(c*d - n)*(c*d - n)), 1000, 3*c*c*d*d)

\* catch_type 4, Hz <= cl/3: ((2cl^2/9) - (Hz^2/2)) / (2cl^2/9), times 18d^2
HexagonNear(c, n, d) == Div(4*c*c*d*d - 9*n*n, 1000, 4*c*c*d*d)

\* the middle hexagon branch with Hz written for (Hz - cl/3)
HexagonMiddleUnshifted(c, n, d) == Div(4*c*c*d - c*c*d - 6*n*c, 1000, 4*c*c*d)

\* catch_type 4, cl/3 < Hz <= 2cl/3:
\*   ((2cl^2/9) - (cl^2/18) - ((Hz - cl/3)*(cl/3))) / (2cl^2/9), times 18d
HexagonMiddle(c, n, d) == Div(4*c*c*d - c*c*d - 2*(3*n - c*d)*c, 1000, 4*c*c*d)

\* catch_type 4, else: ((cl-Hz)^2/2) / (2cl^2/9), times 18d^2
HexagonFar(c, n, d) == Div(9*(c*d - n)*(c*d - n), 1000, 4*c*c*d*d)

get_area(catch_type, c, n, d) ==
  IF catch_type = 1 THEN Triangle(c, n, d)
  ELSE IF catch_type = 2 THEN Rectangle(c, n, d)
  ELSE IF catch_type = 3 THEN
    IF 2*n <= c*d THEN PentagonNear(c, n, d) ELSE PentagonFar(c, n, d)
  ELSE IF catch_type = 4 THEN
    IF 3*n <= c*d THEN HexagonNear(c, n, d)
    ELSE IF c*d < 3*n /\ 3*n <= 2*c*d THEN HexagonMiddle(c, n, d)
    ELSE HexagonFar(c, n, d)
  ELSE Raise                      \* 'We don't have that catchment type'

\* c = (head - head_loss) * Q * G * efficiency * DWater / 1000   [kW], here in W
get_scheme_capacity(head, head_loss, Q, efficiency) ==
  MulDiv(MulDiv(MulDiv(1000 * head - head_loss, Q, 10), G * efficiency, 10000000),
         DWater, 1000)

\* r = C * (365 * 24) * (FIT + P) * R - (interest * total)
get_scheme_annual_revenue(C, FIT, P, R, interest, total) ==
  MulDiv(MulDiv(MulDiv(C, 365 * 24, 1000), FIT + P, 1000), R, 100)
    - MulDiv(total, interest, 1000)

\* area_of_pipe = pi * (D / 2)**2, in cm^2 for D in dm
area_of_pipe(D) == (PiNum * D * D * 100) \div (PiDen * 4)

\* h = F * L / D * Q**2 / (2 * G * (pi * (D / 2)**2)**2), in mm; t is F * L / D
HeadLossFrom(t, D, Q) ==
  IF ~t.ok THEN Raise
  ELSE Div(MulDiv(t.v, 100, 2 * G), Q * Q, area_of_pipe(D) * area_of_pipe(D))

get_head_loss(F, L, D, Q) == HeadLossFrom(Div(F * L, 1, D), D, Q)

\* r = (Q * D) / (area_of_pipe * V_H2O), V_H2O = 10**-6
get_renaulds_number(Q, D) == Div(Q * D, 100000, area_of_pipe(D))

\* the leading four digits of x > 0
RECURSIVE Norm4(_)
Norm4(x) == IF x >= 10000 THEN Norm4(x \div 10)
            ELSE IF x < 1000 THEN Norm4(x * 10) ELSE x

\* floor(2 * log10(x)) for x > 0 given in 1/1000000
TwoLog10(x) ==
  2 * FloorLog10(x) + (IF Norm4(x) * Norm4(x) >= 10000000 THEN 1 ELSE 0) - 12

iterations == 100

\* f = ((1) - (-2 * log(x, 10)))**2; log raises when x <= 0
FrictionOf(x) ==
  IF x <= 0 THEN Raise                                  \* math domain error
  ELSE Val((1 + TwoLog10(x)) * (1 + TwoLog10(x)) * 1000)

\* x = (E / 3.7 * D) + (2.51 / den), den = Rn * sqrt(fl[i-1])
FrictionArg(E, D, den) ==
  IF den = 0 THEN Raise                                 \* ZeroDivisionError
  ELSE FrictionOf(MulDiv(E * D, 1000, 37) + Div(2510000, 1, den).v)

\* One round of the DI/GRP loop:
\*   f = ((1) - (-2 * log((E / 3.7 * D) + (2.51 / (Rn * sqrt(fl[i-1]))), 10)))**2
FrictionStep(E, D, Rn, prev) ==
  FrictionArg(E, D, MulDiv(Rn, Isqrt(prev * 1000), 1000))

\* for i in range(1, iterations): f = ...; fl.append(f)
\* FrictionLoop(E, D, Rn, r, i, j) is the last element of fl after the rounds
\* i .. j-1, r being the last element before them (Raise once a round raised).
\* The rounds are split in halves to keep the evaluation shallow; every round
\* of the range is run, none is skipped.
RECURSIVE FrictionLoop(_, _, _, _, _, _)
FrictionLoop(E, D, Rn, r, i, j) ==
  IF ~r.ok \/ i >= j THEN r
  ELSE IF j = i + 1 THEN FrictionStep(E, D, Rn, r.v)
  ELSE FrictionLoop(E, D, Rn, FrictionLoop(E, D, Rn, r, i, (i + j) \div 2),
                    (i + j) \div 2, j)

\* the branches on the material M, Rn being the Reynolds number
FrictionFor(Rn, D, E, M) ==
  IF ~Rn.ok THEN Raise
  ELSE IF M = "PVC" THEN
    IF Rn.v < 0 THEN Raise          \* negative number to a fractional power
    ELSE Val(MulDiv(79, Isqrt(Isqrt(Rn.v)), 10))        \* 0.0079 * Rn**0.25
  ELSE IF M = "DI" \/ M = "GRP" THEN
    FrictionLoop(E, D, Rn.v, Val(1000), 1, iterations)  \* seed = 1
  ELSE Val(0)

get_friction_coeff(Q, D, E, M) == FrictionFor(get_renaulds_number(Q, D), D, E, M)

\* ------------------------------------------------------------------------
\* src/hydro_utils.py, get_optimum_pipe_for_head
\* A table row is [diameter, pvc, di, grp] (unit costs in GBP per metre).  The
\* arguments other than the table are the record a:
\*   [head, design_flow, penstock_length, FIT, efficiency, market_price, interest]
\* A pipe record carries the fields of the source's dict and, in addition, the
\* position `row` of the table row it was built from (0 for the placeholder).

\* optimum_pipe before the loop
optimum_pipe ==
  [row |-> 0, diameter |-> 0, material |-> "", head_loss |-> 0,
   annual_head_loss_cost |-> 0, annual_capital_cost |-> 0,
   total_annual_cost |-> Sentinel]

\* annual_capital_cost = penstock_length * unit * interest
AnnualCapitalCost(unit, a) ==
  MulDiv(a.penstock_length, MulDiv(unit, a.interest, 1000), 10)

\* annual_head_loss_cost = head_loss * design_flow * G * efficiency * (365 * 24)
\*                           * (FIT + market_price)
AnnualHeadLossCost(head_loss, a) ==
  MulDiv(MulDiv(MulDiv(MulDiv(head_loss, a.design_flow, 10),
                       G * a.efficiency, 100000),
                365 * 24, 1000),
         a.FIT + a.market_price, 100000)

\* the pipe dict of one row/material combination;
\* total_annual_cost = annual_capital_cost + annual_head_loss_cost
PipeRecord(k, diameter, M, head_loss, loss, capital) ==
  [row |-> k, diameter |-> diameter, material |-> M, head_loss |-> head_loss,
   annual_head_loss_cost |-> loss, annual_capital_cost |-> capital,
   total_annual_cost |-> capital + loss]

\* head_loss = get_head_loss(F = friction_coeff, L = penstock_length, D = diameter,
\*                           Q = design_flow)
HeadLossFor(f, diameter, a) ==
  IF ~f.ok THEN Raise ELSE get_head_loss(f.v, a.penstock_length, diameter, a.design_flow)

PipeFor(k, diameter, M, unit, a, hl) ==
  IF ~hl.ok THEN Raise
  ELSE Val(PipeRecord(k, diameter, M, hl.v, AnnualHeadLossCost(hl.v, a),
                      AnnualCapitalCost(unit, a)))

\* One row/material combination, with
\*   friction_coeff = get_friction_coeff(Q = design_flow, D = diameter, E, M)
MaterialCost(k, diameter, M, E, unit, a) ==
  PipeFor(k, diameter, M, unit, a,
          HeadLossFor(get_friction_coeff(a.design_flow, diameter, E, M), diameter, a))

\* the eligibility test with "or" written for "and"
PVCEligibleEither(head, diameter) ==
  head <= PVC_Constraint_MaxHead \/ diameter <= PVC_Constraint_MaxDiameter

\* if head <= PVC_Constraint_MaxHead and diameter <= PVC_Constraint_MaxDiameter
PVCEligible(head, diameter) ==
  head <= PVC_Constraint_MaxHead /\ diameter <= PVC_Constraint_MaxDiameter

\* if total_annual_cost_grp > total_annual_cost_di: DI  else: GRP
PreferDI(di, grp) == grp.total_annual_cost > di.total_annual_cost

\* the PVC branch: the pipe of the row is the PVC pipe
PVCRow(pvc) ==
  IF ~pvc.ok THEN Raise ELSE Val([pipe |-> pvc.v, cands |-> <<pvc.v>>])

\* the else branch: both DI and GRP are computed, then compared
OtherRow(di, grp) ==
  IF ~di.ok \/ ~grp.ok THEN Raise
  ELSE Val([pipe  |-> IF PreferDI(di.v, grp.v) THEN di.v ELSE grp.v,
            cands |-> <<di.v, grp.v>>])

\* The body of the loop up to pipe['total_annual_cost'] = total_annual_cost:
\* the preferred pipe of row k and the combinations evaluated for it.
RowPipe(k, r, a) ==
  IF PVCEligible(a.head, r.diameter)
  THEN PVCRow(MaterialCost(k, r.diameter, "PVC", 0, r.pvc, a))
  ELSE OtherRow(MaterialCost(k, r.diameter, "DI", E_DI, r.di, a),
                MaterialCost(k, r.diameter, "GRP", E_GRP, r.grp, a))

\* if pipe['total_annual_cost'] < optimum_pipe['total_annual_cost']: optimum_pipe = pipe
Replaces(pipe, optimum) == pipe.total_annual_cost < optimum.total_annual_cost

\* for (diameter, pvc, di, grp) in pipe_table, from row k on, with the optimum
\* and the evaluated combinations so far; p is the outcome of row k
RECURSIVE PipeLoop(_, _, _, _, _)
PipeNext(k, table, a, optimum, cands, p) ==
  IF ~p.ok THEN Raise
  ELSE PipeLoop(k + 1, table, a,
                IF Replaces(p.v.pipe, optimum) THEN p.v.pipe ELSE optimum,
                cands \o p.v.cands)

PipeLoop(k, table, a, optimum, cands) ==
  IF k > Len(table) THEN Val([pipe |-> optimum, cands |-> cands])
  ELSE PipeNext(k, table, a, optimum, cands, RowPipe(k, table[k], a))

\* Raise, or Val of the returned pipe together with every row/material
\* combination the call evaluated
get_optimum_pipe_for_head(table, a) == PipeLoop(1, table, a, optimum_pipe, <<>>)

\* ------------------------------------------------------------------------
\* src/EPIC.py: the computation of one head
\* The options are the record o:
\*   [slope, cl, catch_type, heads, ca, aar, aae, fdc_index, reliability,
\*    efficiency, market_price, interest]
\* with slope = [tn, td, sn, sd] and heads = <<>> when --heads is not given.

\* the initial value of each of the five optimum records
InitScheme ==
  [diameter |-> 0, material |-> "", head |-> 0, capacity |-> 0, project_cost |-> 0,
   cost_per_kw |-> Sentinel, payback_period |-> Sentinel,
   annual_roi |-> 0, annual_revenue |-> 0]

\* the validation with ">=" written for ">"
TooLargeOrEqual(h, o) == h * o.slope.td >= o.slope.tn * o.cl

\* heads[i] > max_H, max_H = tan(rad(opts.slope)) * opts.cl
TooLarge(h, o) == h * o.slope.td > o.slope.tn * o.cl

\* int(ceil(max_H))
CeilMaxH(o) == -((-(o.slope.tn * o.cl)) \div o.slope.td)

\* the head list with floor(max_H) + 1 written for int(ceil(max_H))
DefaultHeadsToFloor(o) == [k \in 1..((o.slope.tn * o.cl) \div o.slope.td) |-> k]

\* range(1, int(ceil(max_H)))
DefaultHeads(o) == [k \in 1..(CeilMaxH(o) - 1) |-> k]

\* capacity_estimate = design_flow * h * HEP; if capacity_estimate <= 100: GTHigh
FITFor(design_flow, h) == IF design_flow * h * HEP <= 100 * 10000 THEN GTHigh ELSE GTLow

\* avail_ca      = opts.ca * area_frac
\* catchment_vol = avail_ca * ((opts.aar - opts.aae) / 1000)
\* avg_flow_rate = catchment_vol / (365 * 24 * 60 * 60)
\* design_flow   = avg_flow_rate * flow_duration_curve[opts.fdc_index]
DesignFlow(o, area_frac) ==
  MulDiv(MulDiv(MulDiv(MulDiv(o.ca, area_frac, 1000), o.aar - o.aae, 1000),
                10000, 365 * 24 * 60 * 60),
         flow_duration_curve[o.fdc_index + 1], 10000)

\* the arguments of get_optimum_pipe_for_head(head = h, ...)
SelectArgs(o, h, penstock_length, design_flow) ==
  [head |-> h, design_flow |-> design_flow, penstock_length |-> penstock_length,
   FIT |-> FITFor(design_flow, h), efficiency |-> o.efficiency,
   market_price |-> o.market_price, interest |-> o.interest]

UpstreamOf(o, h, penstock_length, area_frac) ==
  IF ~penstock_length.ok \/ ~area_frac.ok THEN Raise
  ELSE Val(SelectArgs(o, h, penstock_length.v, DesignFlow(o, area_frac.v)))

\* penstock_length .. FIT: Raise, or Val of the arguments of the pipe selection
\*   penstock_length = float(h) / sin(rad(opts.slope))
\*   Hz              = float(h) / tan(rad(opts.slope))
\*   area_frac       = get_area(opts.catch_type, opts.cl, Hz, opts.v)
Upstream(o, h) ==
  UpstreamOf(o, h, Div(h * 10 * o.slope.sd, 1, o.slope.sn),
             get_area(o.catch_type, o.cl, h * o.slope.td, o.slope.tn))

\* total_project_cost = total_penstock_cost / PenFrac
PenstockToProject(total_penstock_cost) ==
  IF ~total_penstock_cost.ok THEN Raise ELSE Div(total_penstock_cost.v, 10, PenFrac)

\* total_penstock_cost = pipe['annual_capital_cost'] / opts.interest
ProjectCost(pipe, o) ==
  PenstockToProject(Div(pipe.annual_capital_cost, 1000, o.interest))

\* the record of one head, or the statement that raised
SchemeOf(h, pipe, capacity, total_project_cost, annual_revenue, payback_period, cost_per_kw, annual_roi) ==
  IF ~payback_period.ok THEN [stage |-> "payback_period", rec |-> InitScheme]
  ELSE IF ~cost_per_kw.ok THEN [stage |-> "cost_per_kw", rec |-> InitScheme]
  ELSE IF ~annual_roi.ok THEN [stage |-> "annual_roi", rec |-> InitScheme]
  ELSE [stage |-> "ok",
        rec |-> [diameter |-> pipe.diameter, material |-> pipe.material,
                 head |-> h, capacity |-> capacity,
                 project_cost |-> total_project_cost,
                 cost_per_kw |-> cost_per_kw.v,
                 payback_period |-> payback_period.v,
                 annual_roi |-> annual_roi.v,
                 annual_revenue |-> annual_revenue]]

\* payback_period = total_project_cost / annual_revenue
\* cost_per_kw    = total_project_cost / capacity
\* annual_return_on_investment = annual_revenue / total_project_cost * 100
EconomicsOf(h, pipe, capacity, total_project_cost, annual_revenue) ==
  SchemeOf(h, pipe, capacity, total_project_cost, annual_revenue,
           DivUp(total_project_cost, 1, annual_revenue),
           Div(total_project_cost, 1000, capacity),
           DivUp(annual_revenue, 10000, total_project_cost))

\* annual_revenue .. annual_return_on_investment of one head
Economics(h, pipe, capacity, FIT, total_project_cost, o) ==
  EconomicsOf(h, pipe, capacity, total_project_cost,
              get_scheme_annual_revenue(capacity, FIT, o.market_price, o.reliability,
                                        o.interest, total_project_cost))

\* if cost_per_kw < scheme_cost_per_kw['cost_per_kw']
UpdateCostPerKw(cur, new) ==
  IF new.cost_per_kw < cur.cost_per_kw THEN new ELSE cur

\* the payback block without its "payback_period > 0"
UpdatePaybackPeriodAnySign(cur, new) ==
  IF new.payback_period < cur.payback_period THEN new ELSE cur

\* if payback_period > 0 and payback_period < scheme_payback_period['payback_period']
UpdatePaybackPeriod(cur, new) ==
  IF new.payback_period > 0 /\ new.payback_period < cur.payback_period THEN new ELSE cur

\* if annual_return_on_investment > scheme_annual_roi['annual_roi']
UpdateAnnualRoi(cur, new) ==
  IF new.annual_roi > cur.annual_roi THEN new ELSE cur

\* if annual_revenue > scheme_annual_revenue['annual_revenue']
UpdateAnnualRevenue(cur, new) ==
  IF new.annual_revenue > cur.annual_revenue THEN new ELSE cur

\* the capacity block without its payback_period line
UpdateCapacityKeepsPayback(cur, new) ==
  IF new.capacity > cur.capacity
  THEN [new EXCEPT !.payback_period = cur.payback_period] ELSE cur

\* if capacity > scheme_capacity['capacity']
UpdateCapacity(cur, new) ==
  IF new.capacity > cur.capacity THEN new ELSE cur

\* One pass of the body of "for h in heads" up to the ROI: the stage that
\* raised or "ok", the pipe returned by the selection (<<>> before it), the
\* combinations it evaluated, and the record of the head.
Failed(stage, pipe, cands) ==
  [stage |-> stage, pipe |-> pipe, cands |-> cands, rec |-> InitScheme]

WithPipe(sel, e) ==
  [stage |-> e.stage, pipe |-> <<sel.pipe>>, cands |-> sel.cands, rec |-> e.rec]

\* capacity = get_scheme_capacity(head = h, head_loss = pipe['head_loss'], ...)
AfterCost(o, h, a, sel, total) ==
  IF ~total.ok THEN Failed("total_penstock_cost", <<sel.pipe>>, sel.cands)
  ELSE WithPipe(sel,
                Economics(h, sel.pipe,
                          get_scheme_capacity(h, sel.pipe.head_loss, a.design_flow,
                                              o.efficiency),
                          a.FIT, total.v, o))

AfterSelect(o, h, a, sel) ==
  IF ~sel.ok THEN Failed("get_optimum_pipe_for_head", <<>>, <<>>)
  ELSE AfterCost(o, h, a, sel.v, ProjectCost(sel.v.pipe, o))

AfterUpstream(o, table, h, a) ==
  IF ~a.ok THEN Failed("get_area", <<>>, <<>>)
  ELSE AfterSelect(o, h, a.v, get_optimum_pipe_for_head(table, a.v))

EvalScheme(o, table, h) == AfterUpstream(o, table, h, Upstream(o, h))

\* ------------------------------------------------------------------------
\* src/EPIC.py: the script as a state machine

VARIABLES
  opts,                   \* the command line options
  pipe_table,             \* the parsed pipe file
  given,                  \* SpecEcon only: the pipe, capacity, cost and FIT of each head
  heads,                  \* the head list of the loop
  pc,                     \* "start", "sweep", "done", "exit" (sys.exit(1)), "error"
  i,                      \* position in heads of the next head
  x_axis,                 \* the heads whose iteration has begun
  evaluated,              \* the *_y_axis lists: one record per head computed to the end
  pipe,                   \* <<pipe>>: the last return value of the pipe selection
  cands,                  \* the row/material combinations that call evaluated
  scheme_cost_per_kw,
  scheme_payback_period,
  scheme_annual_roi,
  scheme_annual_revenue,
  scheme_capacity,
  head_schemes,
  results,                \* the rows of the printed table
  err,                    \* the statement whose exception ended the run
  call,                   \* a function called on its own: its name and arguments
  ret                     \* <<>> before that call, its return values after it

vars ==
  <<opts, pipe_table, given, heads, pc, i, x_axis, evaluated, pipe, cands,
    scheme_cost_per_kw, scheme_payback_period, scheme_annual_roi,
    scheme_annual_revenue, scheme_capacity, head_schemes, results, err, call, ret>>

schemes ==
  <<scheme_cost_per_kw, scheme_payback_period, scheme_annual_roi,
    scheme_annual_revenue, scheme_capacity>>

\* The runs explored.  Slopes are angles whose tangent and sine are rational.
MaxCl == 5
LongCl == 20 * MaxCl

S34 == [tn |-> 3, td |-> 4, sn |-> 3, sd |-> 5]
S43 == [tn |-> 4, td |-> 3, sn |-> 4, sd |-> 5]
Slopes == {S34, S43}

BaseOpts ==
  [slope |-> S34, cl |-> 4, catch_type |-> 1, heads |-> <<>>, ca |-> 10000000,
   aar |-> 1000, aae |-> 400, fdc_index |-> 4, reliability |-> 70,
   efficiency |-> 82, market_price |-> 30, interest |-> 50]

Row(d, pvc, di, grp) == [diameter |-> d, pvc |-> pvc, di |-> di, grp |-> grp]

PlainTable   == <<Row(1, 200, 400, 600), Row(3, 400, 600, 800)>>
WideTable    == <<Row(6, 800, 1200, 1000), Row(3, 400, 600, 800), Row(6, 800, 1000, 1200)>>
TieTable     == <<Row(3, 400, 600, 600), Row(3, 400, 800, 800), Row(4, 800, 1200, 1200)>>
GrpTable     == <<Row(6, 800, 1200, 1000)>>
DearTable    == <<Row(3, 4000, 6000, 6000)>>
ExtremeTable == <<Row(3, 200000000, 200000000, 200000000),
                  Row(3, 200000000, 200000000, 200000000)>>

DefaultRuns ==
  {[o |-> [BaseOpts EXCEPT !.slope = s, !.cl = c, !.catch_type = t], table |-> PlainTable] :
     s \in Slopes, c \in 1..MaxCl, t \in 1..4}

TableRuns ==
  {[o |-> [BaseOpts EXCEPT !.slope = s, !.cl = c], table |-> tb] :
     s \in Slopes, c \in {2, 4}, tb \in {<<>>, WideTable, TieTable, GrpTable, DearTable}}

ExplicitRuns ==
  {[o |-> [BaseOpts EXCEPT !.slope = s, !.heads = hs], table |-> PlainTable] :
     s \in Slopes,
     hs \in {<<a>> : a \in 2..4} \cup {<<a, b>> : a \in 2..4, b \in 2..4}}

LongRuns ==
  {[o |-> [BaseOpts EXCEPT !.slope = s, !.cl = LongCl, !.heads = hs], table |-> tb] :
     s \in Slopes,
     hs \in {<<120>>, <<121>>, <<120, 121>>},
     tb \in {WideTable, TieTable, ExtremeTable}}

LowRainRuns == {[o |-> [BaseOpts EXCEPT !.aar = 800], table |-> PlainTable]}

\* --heads=-1 and --heads=-1,2: int(h) takes any integer
BelowZeroRuns ==
  {[o |-> [BaseOpts EXCEPT !.slope = s, !.catch_type = t, !.heads = hs], table |-> PlainTable] :
     s \in Slopes, t \in 1..4, hs \in {<<-1>>, <<-1, 2>>}}

Runs ==
  DefaultRuns \cup TableRuns \cup ExplicitRuns \cup LongRuns \cup LowRainRuns
    \cup BelowZeroRuns

Fresh ==
  /\ i = 1
  /\ x_axis = <<>>
  /\ evaluated = <<>>
  /\ pipe = <<>>
  /\ cands = <<>>
  /\ scheme_cost_per_kw = InitScheme
  /\ scheme_payback_period = InitScheme
  /\ scheme_annual_roi = InitScheme
  /\ scheme_annual_revenue = InitScheme
  /\ scheme_capacity = InitScheme
  /\ head_schemes = <<>>
  /\ results = <<>>
  /\ err = ""

Init ==
  /\ \E run \in Runs : opts = run.o /\ pipe_table = run.table
  /\ given = <<>>
  /\ heads = <<>>
  /\ pc = "start"
  /\ Fresh
  /\ call = <<>>
  /\ ret = <<>>

\* EPIC.py:99-195: max_H, the evaporation correction, the initial records and
\* the head list
Startup ==
  /\ pc = "start"
  /\ IF opts.aar < 850 THEN
       \* opts.aae = (0.00061 * aar + 0.475) * aae: aar and aae are not defined
       /\ pc' = "error"
       /\ err' = "NameError"
       /\ UNCHANGED heads
     ELSE IF opts.heads # <<>> THEN
       IF \E k \in 1..Len(opts.heads) : TooLarge(opts.heads[k], opts) THEN
         \* 'Error: Head is too large for catchment area. Exiting'; sys.exit(1)
         /\ pc' = "exit"
         /\ UNCHANGED <<heads, err>>
       ELSE
         /\ heads' = opts.heads
         /\ pc' = "sweep"
         /\ UNCHANGED err
     ELSE
       /\ heads' = DefaultHeads(opts)
       /\ pc' = "sweep"
       /\ UNCHANGED err
  /\ UNCHANGED <<opts, pipe_table, given, i, x_axis, evaluated, pipe, cands, schemes,
                 head_schemes, results, call, ret>>

\* the retained list with a head already present in it left out
RetainHeadSchemeOnce(hs, o, rec) ==
  IF o.heads # <<>> /\ ~(\E k \in 1..Len(hs) : hs[k].head = rec.head)
  THEN Append(hs, rec) ELSE hs

\* if opts.heads: head_scheme = {...}; head_schemes.append(head_scheme)
RetainHeadScheme(hs, o, rec) ==
  IF o.heads # <<>> THEN Append(hs, rec) ELSE hs

\* one iteration that leaves out a head whose computation raised and goes on
\* with the next head
RecordSkipFailed(h, r) ==
  /\ x_axis' = Append(x_axis, h)
  /\ pipe' = r.pipe
  /\ cands' = r.cands
  /\ i' = i + 1
  /\ IF r.stage = "ok" THEN
       /\ evaluated' = Append(evaluated, r.rec)
       /\ scheme_cost_per_kw' = UpdateCostPerKw(scheme_cost_per_kw, r.rec)
       /\ scheme_payback_period' = UpdatePaybackPeriod(scheme_payback_period, r.rec)
       /\ scheme_annual_roi' = UpdateAnnualRoi(scheme_annual_roi, r.rec)
       /\ scheme_annual_revenue' = UpdateAnnualRevenue(scheme_annual_revenue, r.rec)
       /\ scheme_capacity' = UpdateCapacity(scheme_capacity, r.rec)
       /\ head_schemes' = RetainHeadScheme(head_schemes, opts, r.rec)
     ELSE
       UNCHANGED <<evaluated, schemes, head_schemes>>
  /\ UNCHANGED <<opts, pipe_table, given, heads, results, pc, err, call, ret>>

\* The rest of one iteration once the head's computation r is known: the five
\* comparisons and head_schemes.append, or the exception.
Record(h, r) ==
  /\ x_axis' = Append(x_axis, h)
  /\ pipe' = r.pipe
  /\ cands' = r.cands
  /\ IF r.stage = "ok" THEN
       /\ evaluated' = Append(evaluated, r.rec)
       /\ scheme_cost_per_kw' = UpdateCostPerKw(scheme_cost_per_kw, r.rec)
       /\ scheme_payback_period' = UpdatePaybackPeriod(scheme_payback_period, r.rec)
       /\ scheme_annual_roi' = UpdateAnnualRoi(scheme_annual_roi, r.rec)
       /\ scheme_annual_revenue' = UpdateAnnualRevenue(scheme_annual_revenue, r.rec)
       /\ scheme_capacity' = UpdateCapacity(scheme_capacity, r.rec)
       /\ head_schemes' = RetainHeadScheme(head_schemes, opts, r.rec)
       /\ i' = i + 1
       /\ UNCHANGED <<pc, err>>
     ELSE
       /\ pc' = "error"
       /\ err' = r.stage
       /\ UNCHANGED <<evaluated, schemes, head_schemes, i>>
  /\ UNCHANGED <<opts, pipe_table, given, heads, results, call, ret>>

\* EPIC.py:212-392, one iteration of "for h in heads"
EvalHead ==
  /\ pc = "sweep"
  /\ i <= Len(heads)
  /\ Record(heads[i], EvalScheme(opts, pipe_table, heads[i]))

\* '%.02f' % capacity: kW with two decimals, from watts
Fmt2(w) == (w + 5) \div 10

\* results.add_row([...]) of one scheme
ResultRow(name, s) ==
  [scheme |-> name, head |-> s.head, material |-> s.material, diameter |-> s.diameter,
   capacity |-> Fmt2(s.capacity), annual_revenue |-> s.annual_revenue,
   project_cost |-> s.project_cost, payback_period |-> s.payback_period,
   cost_per_kw |-> s.cost_per_kw]

\* EPIC.py:394-439: the table of results, after the last head
PrintResults ==
  /\ pc = "sweep"
  /\ i > Len(heads)
  /\ results' = <<ResultRow("Optimum Capacity", scheme_capacity),
                  ResultRow("Optimum Revenue", scheme_annual_revenue)>>
                \o (IF opts.heads # <<>>
                    THEN [k \in 1..Len(head_schemes) |->
                            ResultRow("User Specified", head_schemes[k])]
                    ELSE <<>>)
  /\ pc' = "done"
  /\ UNCHANGED <<opts, pipe_table, given, heads, i, x_axis, evaluated, pipe, cands,
                 schemes, head_schemes, err, call, ret>>

Next == Startup \/ EvalHead \/ PrintResults

Spec == Init /\ [][Next]_vars

\* ------------------------------------------------------------------------
\* The five comparisons alone: EPIC.py:287-390 applied to heads whose pipe,
\* capacity, project cost and FIT are given instead of computed.

MaxGiven == 3

EconOpts == [BaseOpts EXCEPT !.market_price = 115, !.reliability = 100, !.interest = 1]

Given(d, M, capacity, total_project_cost) ==
  [pipe |-> [optimum_pipe EXCEPT !.row = 1, !.diameter = d, !.material = M],
   capacity |-> capacity, total_project_cost |-> total_project_cost, FIT |-> GTLow]

EconCases ==
  {Given(2, "PVC", 2000, 5000),            \* the plain case
   Given(3, "PVC", 4000, 10000),           \* same cost per kW, payback and ROI
   Given(4, "PVC", 3000, 5000),            \* better on every criterion
   Given(5, "PVC", 2000, 10000000),        \* revenue below zero
   Given(6, "DI", 1, 1000000),             \* 1 W for a million: 10^9 per kW
   Given(7, "GRP", 571000, 1250489000),    \* revenue of 1: payback above 10^9 years
   Given(8, "GRP", 0, 5000),               \* no capacity: the cost per kW raises
   Given(9, "PVC", 1000, 2500)}            \* a quarter of the second: the revenue is
                                           \* rounded, so payback ties and ROI does not

GivenLists ==
  UNION {[1..n -> EconCases] : n \in 1..MaxGiven}

InitEcon ==
  /\ given \in GivenLists
  /\ heads = [k \in 1..Len(given) |-> k]
  /\ opts = [EconOpts EXCEPT !.heads = heads]
  /\ pipe_table = <<>>
  /\ pc = "sweep"
  /\ Fresh
  /\ call = <<>>
  /\ ret = <<>>

\* one iteration of "for h in heads" from the annual revenue on
EvalGiven ==
  /\ pc = "sweep"
  /\ i <= Len(heads)
  /\ Record(heads[i],
            WithPipe([pipe |-> given[i].pipe, cands |-> <<>>],
                     Economics(heads[i], given[i].pipe, given[i].capacity, given[i].FIT,
                               given[i].total_project_cost, opts)))

NextEcon == EvalGiven \/ PrintResults

SpecEcon == InitEcon /\ [][NextEcon]_vars

\* ------------------------------------------------------------------------
\* Properties of the pipe selection (under Spec).  pipe holds the last return
\* value of get_optimum_pipe_for_head, cands the row/material combinations
\* that call evaluated, and the last element of x_axis the head it was for.

\* the cost of row r: that of the cheaper of the combinations evaluated for it
RowTotal(r) ==
  CHOOSE t \in {cands[k].total_annual_cost : k \in {j \in 1..Len(cands) : cands[j].row = r}} :
    \A k \in 1..Len(cands) : cands[k].row = r => t <= cands[k].total_annual_cost

\* the rows whose cost is the smallest of the table
MinimalRows ==
  {r \in 1..Len(pipe_table) : \A q \in 1..Len(pipe_table) : RowTotal(r) <= RowTotal(q)}

\* C1: for a non-empty pipe table, the pipe that get_optimum_pipe_for_head
\* returns is one of the row/material combinations it evaluated, and its
\* total_annual_cost is <= that of every combination evaluated.
C1_SelectionIsCheapestRow ==
  (pipe # <<>> /\ pipe_table # <<>>) =>
    /\ \E k \in 1..Len(cands) : cands[k] = pipe[1]
    /\ \A k \in 1..Len(cands) :
         pipe[1].total_annual_cost <= cands[k].total_annual_cost

\* C2: a row with head <= 120 and diameter <= 0.5 m (5 dm) is evaluated as PVC
\* only, a row with head > 120 or diameter > 0.5 m never as PVC; the returned
\* pipe, when it is a row, obeys the same rule.
C2_PVCOnlyWhenEligible ==
  /\ \A k \in 1..Len(cands) :
       (x_axis[Len(x_axis)] <= 120 /\ cands[k].diameter <= 5) <=> cands[k].material = "PVC"
  /\ (pipe # <<>> /\ pipe[1].row > 0) =>
       ((x_axis[Len(x_axis)] <= 120 /\ pipe[1].diameter <= 5) <=> pipe[1].material = "PVC")

\* a head of 121 m: a 0.3 m row, PVC at 120 m, was evaluated as DI and GRP only
C2_NarrowPipeAboveMaxHead ==
  /\ x_axis = <<120, 121>>
  /\ pipe # <<>>
  /\ pipe[1].diameter = 3
  /\ pipe[1].material \in {"DI", "GRP"}
  /\ evaluated # <<>>
  /\ evaluated[1].material = "PVC"

\* C3: when two or more rows have the same minimal total annual cost, the
\* returned pipe is that of the earliest of them.
C3_FirstMinimalRowWins ==
  (pipe # <<>> /\ Cardinality(MinimalRows) >= 2) =>
    /\ pipe[1].row \in MinimalRows
    /\ \A r \in MinimalRows : pipe[1].row <= r

\* C4: with a pipe table that has no rows the selection fails with
\* EmptyTableError and returns no pipe.
C4_EmptyTableFails ==
  (pipe_table = <<>> /\ x_axis # <<>>) =>
    (pipe = <<>> /\ pc = "error" /\ err = "EmptyTableError")

\* ------------------------------------------------------------------------
\* Properties of the head list (under Spec)

\* C5 as stated: without explicit heads the sweep evaluates exactly the heads
\* 1, 2, ..., floor(max_head) in increasing order, each once, also when
\* max_head is an integer.
C5_DefaultHeadsToFloorMaxHead ==
  (opts.heads = <<>> /\ pc \in {"sweep", "done"}) =>
    /\ heads = [k \in 1..((opts.slope.tn * opts.cl) \div opts.slope.td) |-> k]
    /\ x_axis = SubSeq(heads, 1, Len(x_axis))
    /\ (pc = "done" => x_axis = heads)

\* C5 as the code has it: without explicit heads the sweep evaluates exactly
\* the integers h >= 1 with h < max_head, in increasing order, each once; that
\* is 1 .. floor(max_head) unless max_head is an integer, and then
\* 1 .. max_head - 1.
C5_DefaultHeadsBelowMaxHead ==
  (opts.heads = <<>> /\ pc \in {"sweep", "done"}) =>
    /\ \A k \in 1..Len(heads) : heads[k] = k
    /\ \A h \in 1..(2 * opts.cl) :
         (h <= Len(heads)) <=> (h * opts.slope.td < opts.slope.tn * opts.cl)
    /\ x_axis = SubSeq(heads, 1, Len(x_axis))
    /\ (pc = "done" => x_axis = heads)

\* a finished default sweep with max_head = 3: the heads 1 and 2, not 3
C5_IntegerMaxHeadSwept ==
  /\ pc = "done"
  /\ opts.heads = <<>>
  /\ opts.slope.tn * opts.cl = 3 * opts.slope.td
  /\ x_axis = <<1, 2>>

\* C6: with explicit heads every head is validated before any is evaluated: a
\* head equal to max_head is accepted; a head above max_head ends the run with
\* the error exit, no head evaluated and no optimum record updated.
C6_ExplicitHeadsValidatedFirst ==
  (opts.heads # <<>> /\ pc # "start") =>
    IF \E k \in 1..Len(opts.heads) :
         opts.heads[k] * opts.slope.td > opts.slope.tn * opts.cl
    THEN /\ pc = "exit"
         /\ x_axis = <<>>
         /\ evaluated = <<>>
         /\ pipe = <<>>
         /\ \A k \in 1..5 : schemes[k] = InitScheme
         /\ head_schemes = <<>>
         /\ results = <<>>
    ELSE /\ pc # "exit"
         /\ heads = opts.heads

\* max_head = 3: the list 2, 4 is rejected at its second head, nothing evaluated
C6_RejectedAfterAValidHead ==
  /\ pc = "exit"
  /\ opts.heads = <<2, 4>>
  /\ opts.slope.tn * opts.cl = 3 * opts.slope.td

\* ------------------------------------------------------------------------
\* Properties of the optimum records.  evaluated[k] is the record of the k-th
\* head of the sweep; with pc = "done" every head was evaluated without error.

\* C7 (under SpecEcon): after a sweep of a non-empty head list without error
\* the cost-per-kW optimum is the record of the earliest head whose
\* cost_per_kw is minimal over the evaluated heads.
C7_CostPerKwOptimumIsEarliestMinimum ==
  (pc = "done" /\ evaluated # <<>>) =>
    \E k \in 1..Len(evaluated) :
      /\ scheme_cost_per_kw = evaluated[k]
      /\ \A j \in 1..Len(evaluated) :
           /\ evaluated[k].cost_per_kw <= evaluated[j].cost_per_kw
           /\ (j < k => evaluated[k].cost_per_kw < evaluated[j].cost_per_kw)

\* C8 (under SpecEcon): the payback optimum is never the record of a head with
\* payback_period <= 0, and after the sweep, if some evaluated head has a
\* positive payback period, it is the record of the earliest head with the
\* smallest positive one.
C8_PaybackOptimumIsEarliestSmallestPositive ==
  /\ scheme_payback_period.payback_period > 0
  /\ (pc = "done" /\ \E k \in 1..Len(evaluated) : evaluated[k].payback_period > 0) =>
       \E k \in 1..Len(evaluated) :
         /\ scheme_payback_period = evaluated[k]
         /\ evaluated[k].payback_period > 0
         /\ \A j \in 1..Len(evaluated) :
              evaluated[j].payback_period > 0 =>
                /\ evaluated[k].payback_period <= evaluated[j].payback_period
                /\ (j < k => evaluated[k].payback_period < evaluated[j].payback_period)

\* C9 (under Spec): after a sweep of a non-empty head list without error the
\* optimum of each maximised criterion (annual ROI, annual revenue, capacity)
\* is the record of the earliest head attaining the maximum of that criterion.
C9_MaximisedOptimaAreEarliestMaximum ==
  (pc = "done" /\ evaluated # <<>>) =>
    /\ \E k \in 1..Len(evaluated) :
         /\ scheme_annual_roi = evaluated[k]
         /\ \A j \in 1..Len(evaluated) :
              /\ evaluated[k].annual_roi >= evaluated[j].annual_roi
              /\ (j < k => evaluated[k].annual_roi > evaluated[j].annual_roi)
    /\ \E k \in 1..Len(evaluated) :
         /\ scheme_annual_revenue = evaluated[k]
         /\ \A j \in 1..Len(evaluated) :
              /\ evaluated[k].annual_revenue >= evaluated[j].annual_revenue
              /\ (j < k => evaluated[k].annual_revenue > evaluated[j].annual_revenue)
    /\ \E k \in 1..Len(evaluated) :
         /\ scheme_capacity = evaluated[k]
         /\ \A j \in 1..Len(evaluated) :
              /\ evaluated[k].capacity >= evaluated[j].capacity
              /\ (j < k => evaluated[k].capacity > evaluated[j].capacity)

\* C10 (under Spec): no row of the printed table is an initial record (head 0,
\* empty material, cost_per_kw and payback_period at the placeholder).
C10_NoInitialRecordReported ==
  \A k \in 1..Len(results) :
    ~(/\ results[k].head = 0
      /\ results[k].material = ""
      /\ results[k].cost_per_kw = Sentinel
      /\ results[k].payback_period = Sentinel)

\* ------------------------------------------------------------------------
\* Properties of the retained per-head list and of failing heads

\* C11: when explicit heads are supplied and the sweep completes, head_schemes
\* holds exactly one record per supplied head (duplicates included), in input
\* order, the k-th record's head being the k-th supplied head; the printed
\* table lists them in that order after the two optimum rows.
C11_HeadSchemesFollowSuppliedHeads ==
  (opts.heads # <<>> /\ pc = "done") =>
    /\ Len(head_schemes) = Len(opts.heads)
    /\ \A k \in 1..Len(opts.heads) :
         /\ head_schemes[k].head = opts.heads[k]
         /\ head_schemes[k] = evaluated[k]
    /\ Len(results) = 2 + Len(opts.heads)
    /\ \A k \in 1..Len(opts.heads) :
         /\ results[2 + k].scheme = "User Specified"
         /\ results[2 + k].head = opts.heads[k]

\* a completed sweep of the list 3, 3: two records, both of head 3
C11_DuplicateHeadRetainedTwice ==
  /\ pc = "done"
  /\ opts.heads = <<3, 3>>
  /\ Len(head_schemes) = 2
  /\ head_schemes[1].head = 3
  /\ head_schemes[2].head = 3

\* C12: when the evaluation of a head raises, the step of that head changes
\* none of the five optimum records and adds nothing to head_schemes, the run
\* ends in the error named after the statement that raised, and nothing
\* happens after it: no later head is evaluated, no table is printed.
C12_FailedHeadAbortsTheRun ==
  [][/\ pc # "error"
     /\ (pc = "sweep" /\ i <= Len(heads)
           /\ EvalScheme(opts, pipe_table, heads[i]).stage # "ok") =>
          /\ pc' = "error"
          /\ err' = EvalScheme(opts, pipe_table, heads[i]).stage
          /\ schemes' = schemes
          /\ head_schemes' = head_schemes
          /\ evaluated' = evaluated
          /\ i' = i
          /\ results' = <<>>]_vars

\* max_head = 3 and the list 2, 3: head 2 is recorded, head 3 has no flow and
\* raises at the cost per kW; the records are those of head 2
C12_SecondHeadFailedAfterAGoodOne ==
  /\ pc = "error"
  /\ err = "cost_per_kw"
  /\ x_axis = <<2, 3>>
  /\ Len(evaluated) = 1
  /\ scheme_capacity = evaluated[1]
  /\ head_schemes = <<evaluated[1]>>
  /\ results = <<>>

\* ------------------------------------------------------------------------
\* get_area called on its own: one call per behaviour, for a catchment type
\* (5 is not one the program has), a catchment length and two offsets
\* a/d <= b/d in [0, cl].

OffsetDen == 3

sweep ==
  <<opts, pipe_table, given, heads, pc, i, x_axis, evaluated, pipe, cands, schemes,
    head_schemes, results, err>>

\* the sweep's variables while a function is called on its own
Idle ==
  /\ opts = BaseOpts
  /\ pipe_table = <<>>
  /\ given = <<>>
  /\ heads = <<>>
  /\ pc = "call"
  /\ Fresh

AreaCalls ==
  {[fn |-> "get_area", catch_type |-> t, cl |-> c, d |-> d, a |-> a, b |-> b] :
     t \in 1..5, c \in 1..MaxCl, d \in 1..OffsetDen,
     a \in 0..(MaxCl * OffsetDen), b \in 0..(MaxCl * OffsetDen)}

InitArea ==
  /\ Idle
  /\ call \in {k \in AreaCalls : k.a <= k.b /\ k.b <= k.cl * k.d}
  /\ ret = <<>>

\* area_frac = get_area(catch_type, cl, Hz, verbose) for Hz = a/d and for Hz = b/d
CallGetArea ==
  /\ ret = <<>>
  /\ ret' = <<get_area(call.catch_type, call.cl, call.a, call.d),
              get_area(call.catch_type, call.cl, call.b, call.d)>>
  /\ UNCHANGED <<sweep, call>>

NextArea == CallGetArea

SpecArea == InitArea /\ [][NextArea]_vars

\* C13 (under SpecArea): for each of the four shapes and every catchment
\* length, get_area returns 1 (1000/1000) at offset 0 and 0 at offset cl.
C13_AreaIsOneAtZeroAndZeroAtLength ==
  (ret # <<>> /\ call.catch_type \in 1..4) =>
    /\ (call.a = 0 => ret[1] = Val(1000))
    /\ (call.a = call.cl * call.d => ret[1] = Val(0))
    /\ (call.b = 0 => ret[2] = Val(1000))
    /\ (call.b = call.cl * call.d => ret[2] = Val(0))

\* the hexagon of length 5 at the offsets 0 and 5
C13_HexagonAtBothEnds ==
  /\ ret = <<Val(1000), Val(0)>>
  /\ call.catch_type = 4
  /\ call.cl = 5
  /\ call.a = 0
  /\ call.b = call.cl * call.d

\* C14 (under SpecArea): for each of the four shapes and every catchment
\* length, get_area is non-increasing in the offset over [0, cl]: for offsets
\* a <= b of that interval both calls return and the value at b is <= the
\* value at a, whichever branches a and b fall in.
C14_AreaNonIncreasingInOffset ==
  (ret # <<>> /\ call.catch_type \in 1..4) =>
    /\ ret[1].ok
    /\ ret[2].ok
    /\ ret[2].v <= ret[1].v

\* a hexagon, a in the first branch and b in the third: the area shrank
C14_HexagonAcrossBothBreakpoints ==
  /\ ret # <<>>
  /\ call.catch_type = 4
  /\ 0 < call.a
  /\ 3 * call.a < call.cl * call.d
  /\ 3 * call.b > 2 * call.cl * call.d
  /\ call.b < call.cl * call.d
  /\ ret[1].ok
  /\ ret[2].ok
  /\ ret[2].v < ret[1].v

\* C15 (under SpecArea): at the breakpoints, cl/2 for the pentagon and cl/3
\* and 2cl/3 for the hexagon, the formulas of the two adjacent branches give
\* the same value, which is the value get_area returns there.
C15_BranchesAgreeAtBreakpoints ==
  (ret # <<>>) =>
    /\ (call.catch_type = 3 /\ 2 * call.a = call.cl * call.d) =>
         /\ PentagonNear(call.cl, call.a, call.d) = PentagonFar(call.cl, call.a, call.d)
         /\ ret[1] = PentagonFar(call.cl, call.a, call.d)
    /\ (call.catch_type = 4 /\ 3 * call.a = call.cl * call.d) =>
         /\ HexagonNear(call.cl, call.a, call.d) = HexagonMiddle(call.cl, call.a, call.d)
         /\ ret[1] = HexagonMiddle(call.cl, call.a, call.d)
    /\ (call.catch_type = 4 /\ 3 * call.a = 2 * call.cl * call.d) =>
         /\ HexagonMiddle(call.cl, call.a, call.d) = HexagonFar(call.cl, call.a, call.d)
         /\ ret[1] = HexagonFar(call.cl, call.a, call.d)

\* the pentagon at cl/2 (a third of the area) and at a point beyond it
C15_PentagonAtHalfLength ==
  /\ ret # <<>>
  /\ call.catch_type = 3
  /\ 2 * call.a = call.cl * call.d
  /\ call.b > call.a
  /\ ret[1] = Val(333)

\* ------------------------------------------------------------------------
\* get_scheme_annual_revenue called on its own, twice, with market prices
\* P1 <= P2 and everything else the same.  The capacities are ones the sweep
\* computes; a capacity below zero is that of a pipe whose head loss exceeds
\* the head, which get_scheme_capacity returns as it is.

RevenueCalls ==
  {[fn |-> "get_scheme_annual_revenue", C |-> C, FIT |-> F, R |-> R, interest |-> 50,
    total |-> t, P1 |-> P1, P2 |-> P2] :
     C \in {-180105, -3943, 0, 444, 955, 571000}, F \in {GTHigh, GTLow}, R \in {70, 100},
     t \in {1250, 2500, 1000000}, P1 \in {0, 30, 60, 115}, P2 \in {0, 30, 60, 115}}

InitRevenue ==
  /\ Idle
  /\ call \in {k \in RevenueCalls : k.P1 <= k.P2}
  /\ ret = <<>>

\* annual_revenue = get_scheme_annual_revenue(C = capacity, FIT = FIT,
\*   P = opts.market_price, R = opts.reliability, interest = opts.interest,
\*   total = total_project_cost)
CallGetRevenue ==
  /\ ret = <<>>
  /\ ret' = <<get_scheme_annual_revenue(call.C, call.FIT, call.P1, call.R,
                                        call.interest, call.total),
              get_scheme_annual_revenue(call.C, call.FIT, call.P2, call.R,
                                        call.interest, call.total)>>
  /\ UNCHANGED <<sweep, call>>

NextRevenue == CallGetRevenue

SpecRevenue == InitRevenue /\ [][NextRevenue]_vars

\* C16 (under SpecRevenue): with capacity, tariff, reliability, interest and
\* total project cost fixed, a higher market price never gives a lower annual
\* revenue.
C16_RevenueNonDecreasingInMarketPrice ==
  (ret # <<>>) => ret[2] >= ret[1]

\* ------------------------------------------------------------------------
\* The pipe hydraulics called on their own, as get_optimum_pipe_for_head calls
\* them for one row and material: the friction coefficient, then the head
\* loss from it.  Flows in dl/s, diameters in dm, lengths in dm.

HydraulicsCalls ==
  {[fn |-> "get_head_loss", Q |-> Q, D |-> D, L |-> L, M |-> m[1], E |-> m[2]] :
     Q \in {-586, -1, 0, 1, 586}, D \in {-3, 0, 1, 3, 6}, L \in {17, 1500},
     m \in {<<"PVC", 0>>, <<"DI", E_DI>>, <<"GRP", E_GRP>>}}

InitHydraulics ==
  /\ Idle
  /\ call \in HydraulicsCalls
  /\ ret = <<>>

\* friction_coeff = get_friction_coeff(Q = design_flow, D = diameter, E, M)
\* head_loss = get_head_loss(F = friction_coeff, L = penstock_length,
\*                           D = diameter, Q = design_flow)
CallHydraulics ==
  /\ ret = <<>>
  /\ ret' = <<get_friction_coeff(call.Q, call.D, call.E, call.M),
              HeadLossFor(get_friction_coeff(call.Q, call.D, call.E, call.M), call.D,
                          [penstock_length |-> call.L, design_flow |-> call.Q])>>
  /\ UNCHANGED <<sweep, call>>

NextHydraulics == CallHydraulics

SpecHydraulics == InitHydraulics /\ [][NextHydraulics]_vars

\* C17 (under SpecHydraulics): for every material, with flow <= 0 or
\* diameter <= 0 the hydraulics raise: neither a friction coefficient nor a
\* head loss is returned.
C17_HydraulicsRaiseOnNonPositiveInput ==
  (ret # <<>> /\ (call.Q <= 0 \/ call.D <= 0)) => (~ret[1].ok /\ ~ret[2].ok)

\* ------------------------------------------------------------------------
\* Properties of the sweep's inputs to the catchment area model (under Spec)

\* C18: for every head whose iteration has begun, of the default range or of
\* an accepted explicit list, the offset Hz = head / tan(slope) lies in
\* [0, cl] and the area fraction get_area returns for it lies in [0, 1].
C18_OffsetAndAreaFractionInRange ==
  \A k \in 1..Len(x_axis) :
    /\ 0 <= x_axis[k] * opts.slope.td
    /\ x_axis[k] * opts.slope.td <= opts.cl * opts.slope.tn
    /\ get_area(opts.catch_type, opts.cl, x_axis[k] * opts.slope.td, opts.slope.tn).ok
    /\ get_area(opts.catch_type, opts.cl, x_axis[k] * opts.slope.td, opts.slope.tn).v
         \in 0..1000

\* ------------------------------------------------------------------------
\* The DI/GRP loop of get_friction_coeff, one round per step.  ret is the list
\* fl: the seed, then one iterate per round.

FrictionCalls ==
  {[fn |-> "get_friction_coeff", Q |-> Q, D |-> D, M |-> m[1], E |-> m[2]] :
     Q \in {0, 59, 586}, D \in {1, 3, 6}, m \in {<<"DI", E_DI>>, <<"GRP", E_GRP>>}}

\* seed = 1; fl = []; fl.append(float(seed))
InitFriction ==
  /\ Idle
  /\ call \in FrictionCalls
  /\ ret = <<1000>>

\* the test of the loop with "<=" written for "<"
InRangeInclusive(k) == 1 <= k /\ k <= iterations

\* i in range(1, iterations), i being len(fl) when the round begins
InRange(k) == 1 <= k /\ k < iterations

\* the round's outcome f: fl.append(f), or the exception of its statement
FrictionAppend(f) ==
  IF f.ok
  THEN ret' = Append(ret, f.v) /\ UNCHANGED <<pc, err>>
  ELSE pc' = "error" /\ err' = "get_friction_coeff" /\ UNCHANGED ret

\* one round: f = ((1) - (-2 * log(..., 10)))**2; fl.append(f)
FrictionRound ==
  /\ pc = "call"
  /\ InRange(Len(ret))
  /\ FrictionAppend(FrictionStep(call.E, call.D, get_renaulds_number(call.Q, call.D).v,
                                 ret[Len(ret)]))
  /\ UNCHANGED <<opts, pipe_table, given, heads, i, x_axis, evaluated, pipe, cands,
                 schemes, head_schemes, results, call>>

\* return f, after the last round
FrictionReturn ==
  /\ pc = "call"
  /\ ~InRange(Len(ret))
  /\ pc' = "returned"
  /\ UNCHANGED <<opts, pipe_table, given, heads, i, x_axis, evaluated, pipe, cands,
                 schemes, head_schemes, results, err, call, ret>>

NextFriction == FrictionRound \/ FrictionReturn

SpecFriction == InitFriction /\ [][NextFriction]_vars

\* C19 as stated (under SpecFriction): for DI and GRP the iterate is seeded at
\* 1 and the update rule is applied exactly 100 times, without early exit,
\* and the last iterate is returned.
C19_HundredUpdates ==
  (pc = "returned") =>
    /\ ret[1] = 1000
    /\ Len(ret) - 1 = 100
    /\ Val(ret[Len(ret)]) = get_friction_coeff(call.Q, call.D, call.E, call.M)

\* C19 as the code has it: for DI and GRP the iterate is seeded at 1 and the
\* update rule is applied exactly 99 times (range(1, 100): the list of
\* iterates, seed included, has 100 entries), each round from the iterate
\* before it, without convergence check or early exit, and the last iterate
\* is returned.
C19_NinetyNineUpdates ==
  /\ ret[1] = 1000
  /\ \A k \in 2..Len(ret) :
       Val(ret[k]) = FrictionStep(call.E, call.D, get_renaulds_number(call.Q, call.D).v,
                                  ret[k - 1])
  /\ (pc = "returned") =>
       /\ Len(ret) - 1 = 99
       /\ Val(ret[Len(ret)]) = get_friction_coeff(call.Q, call.D, call.E, call.M)

\* a DI call that returned: the iterate no longer changed after the tenth
\* round and the rounds went on to the last
C19_RoundsGoOnAfterConvergence ==
  /\ pc = "returned"
  /\ call.M = "DI"
  /\ Len(ret) = 100
  /\ ret[2] # ret[1]
  /\ \A k \in 11..100 : ret[k] = ret[10]

\* ------------------------------------------------------------------------
\* C20 (under Spec): after every step of the sweep each of the five optimum
\* records is either the initial record or, field for field, the record of
\* one head already evaluated: all nine fields come from that same head.
C20_OptimaAreWholeHeadRecords ==
  \A k \in 1..5 :
    \/ schemes[k] = InitScheme
    \/ \E j \in 1..Len(evaluated) : schemes[k] = evaluated[j]

\* in the middle of a sweep: the capacity optimum and the cost-per-kW optimum
\* are the records of two different heads
C20_OptimaOfDifferentHeads ==
  /\ pc = "sweep"
  /\ i <= Len(heads)
  /\ Len(evaluated) >= 2
  /\ scheme_capacity # InitScheme
  /\ scheme_cost_per_kw # InitScheme
  /\ scheme_capacity.head # scheme_cost_per_kw.head
  /\ scheme_capacity.payback_period # scheme_cost_per_kw.payback_period

\* ------------------------------------------------------------------------
\* The payback optimum and the ROI optimum.  payback_period is
\* total_project_cost / annual_revenue and annual_roi is annual_revenue /
\* total_project_cost * 100: each is computed and rounded on its own.

====
